---- MODULE Spec2Model ----
\* Attendance bridge (server.js): the device-access coordinator
\* (executeZKAction and its callers), the attendance aggregator
\* (calculateStats) and the record filter (getUnifiedData).
EXTENDS Integers, Sequences, FiniteSets, TLC

VARIABLES
    now,            \* Date.now(), in ms since the process started
    isDeviceBusy,   \* let isDeviceBusy
    lastBusyReset,  \* let lastBusyReset
    cooldownUntil,  \* let cooldownUntil
    pc,             \* per request slot: where its executeZKAction call stands
    forced,         \* per request slot: admitted through the emergency reset
    failed,         \* per request slot: its connect or action step failed
    resp,           \* outcome of the most recent executeZKAction call, with the
                    \* latest failure time known when it was made
    lastFail,       \* time of the most recent device failure, -1 if none
    errMsg,         \* per request slot: the message its catch block rethrows
    settled,        \* how the most recent finished executeZKAction call ended
    closed,         \* how the zk.disconnect() of that call ended
    records,        \* the attendance records the device holds, in its order
    agg,            \* the latest calculateStats call: its clock and its result
    out,            \* the latest getUnifiedData call: its request and result
    thisRead,       \* the latest read: what it saw, what it returned
    pastRead,       \* an earlier read, kept to compare later reads with
    leftover,       \* the stats and currentStatus objects the last calculateStats
                    \* call built (garbage once it has returned)
    autoSyncEnabled,      \* let autoSyncEnabled
    lastAutoSyncAttempt,  \* let lastAutoSyncAttempt
    lastAutoSyncSuccess,  \* let lastAutoSyncSuccess
    job,            \* per handler slot: a sync handler in flight and where it stands
    delivered,      \* the requests of the postToCloud call that ended in the last
                    \* step, <<>> if none did
    reply,          \* the HTTP response a sync route sent in the last step
    workedMs,       \* a summary's totalMs
    workedText,     \* the total_time_worked a payload record carries for it
    workedSpans     \* the number of durations added to it

coordVars == <<now, isDeviceBusy, lastBusyReset, cooldownUntil, pc, forced,
               failed, resp, lastFail, errMsg, settled, closed>>

repeatVars == <<thisRead, pastRead, leftover>>

dataVars == <<records, agg, out, repeatVars>>

syncVars == <<autoSyncEnabled, lastAutoSyncAttempt, lastAutoSyncSuccess, job,
              delivered, reply>>

formatVars == <<workedMs, workedText, workedSpans>>

vars == <<coordVars, dataVars, syncVars, formatVars>>

-----------------------------------------------------------------------------
\* Bounds of the model.

\* Number of request slots whose device action can be in flight at once.
MaxProcs == 2
\* The clock stops advancing here.
MaxTime == 47500
\* Number of device records aggregated.
MaxRecords == 3
\* Number of device records in a filtered read.
MaxFilterRecords == 3
\* Number of device records while reads are repeated.
MaxRepeatRecords == 2
\* Number of sync handlers (scheduled, run-now, sync-date, sync) in flight at once.
MaxJobs == 1
\* The clock stops advancing here while syncs run.
MaxSyncTime == 7500
\* Number of durations added to one summary's totalMs.
MaxSpans == 4
\* Length of the device log whose records carry their id under varied names.
MaxAliasRecords == 2

\* Program constants.
CooldownMs == 15000
StuckMs == 40000

Procs == 1..MaxProcs
Jobs == 1..MaxJobs
\* The clock advances in these steps (ms).
TickSteps == {7500, 40000}
\* The two callers of executeZKAction.
Callers == {"getUnifiedData", "users"}

-----------------------------------------------------------------------------
\* JavaScript values used by the aggregator and the filter.
\* A string is a sequence of one-character strings; null, undefined-as-NaN and
\* Invalid Date are the empty sequence and a present value x is <<x>>.

Null == <<>>
Some(x) == <<x>>

\* A missing (undefined, so falsy) id field of a device record.
Absent == ""

\* a || b on id fields.
OrId(a, b) == IF a # Absent THEN a ELSE b

\* String(x): String(undefined) is "undefined".
String(x) == IF x = Absent THEN "undefined" ELSE x

DigitChars == <<"0", "1", "2", "3", "4", "5", "6", "7", "8", "9">>
IsDigit(c) == \E i \in 1..10 : DigitChars[i] = c
DigitValue(c) == (CHOOSE i \in 1..10 : DigitChars[i] = c) - 1

\* String(n) for a non-negative integer n.
RECURSIVE Str(_)
Str(n) == IF n < 10 THEN <<DigitChars[n + 1]>>
          ELSE Str(n \div 10) \o <<DigitChars[(n % 10) + 1]>>

\* s.padStart(2, '0')
PadStart2(s) == IF Len(s) < 2 THEN <<"0">> \o s ELSE s

\* Mutant of FormatTotal: the minutes are those of the whole duration, the
\* hours not taken out of them.
FormatTotalWholeMinutes(totalMs) ==
    PadStart2(Str(totalMs \div 3600000)) \o <<":">>
      \o PadStart2(Str(totalMs \div 60000)) \o <<":">>
      \o PadStart2(Str((totalMs % 60000) \div 1000))

\* formattedTotalTime: `${HH}:${mm}:${ss}` with h, m and s_time floored from
\* totalMs and each padded to two digits.
FormatTotal(totalMs) ==
    PadStart2(Str(totalMs \div 3600000)) \o <<":">>
      \o PadStart2(Str((totalMs % 3600000) \div 60000)) \o <<":">>
      \o PadStart2(Str((totalMs % 60000) \div 1000))

\* The length of the longest prefix of s made of digits.
RECURSIVE DigitPrefixLen(_)
DigitPrefixLen(s) ==
    IF s = <<>> \/ ~IsDigit(Head(s)) THEN 0 ELSE 1 + DigitPrefixLen(Tail(s))

\* The decimal value of a sequence of digits.
RECURSIVE DigitsValue(_)
DigitsValue(s) ==
    IF s = <<>> THEN 0
    ELSE 10 * DigitsValue(SubSeq(s, 1, Len(s) - 1)) + DigitValue(s[Len(s)])

\* parseInt(s) for a string without sign or leading blanks: the value of its
\* leading digits, NaN (Null) when it has none.
ParseInt(s) ==
    IF DigitPrefixLen(s) = 0 THEN Null
    ELSE Some(DigitsValue(SubSeq(s, 1, DigitPrefixLen(s))))

\* s.split('-')
RECURSIVE Split(_)
Split(s) ==
    IF \A i \in 1..Len(s) : s[i] # "-" THEN <<s>>
    ELSE LET k == CHOOSE i \in 1..Len(s) :
                    s[i] = "-" /\ \A j \in 1..(i - 1) : s[j] # "-"
         IN <<SubSeq(s, 1, k - 1)>> \o Split(SubSeq(s, k + 1, Len(s)))

\* a.startsWith(b)
StartsWith(a, b) == Len(b) <= Len(a) /\ SubSeq(a, 1, Len(b)) = b

-----------------------------------------------------------------------------
\* Local time. A Date is a number of ms counted from local midnight of the
\* first day of CalendarDays; day slot k (from 1) is the local calendar day
\* CalendarDays[k]. Slots follow each other in time; slots 1-2 and slots 3-4
\* are adjacent days.

MsPerDay == 24 * 3600000

CalendarDays ==
    << [y |-> 2024, m |-> 11, d |-> 30],
       [y |-> 2024, m |-> 12, d |-> 1],
       [y |-> 2024, m |-> 12, d |-> 31],
       [y |-> 2025, m |-> 1, d |-> 1] >>

DaySlot(t) == (t \div MsPerDay) + 1

\* Date.prototype.getFullYear / getMonth (0-based) / getDate
GetFullYear(t) == CalendarDays[DaySlot(t)].y
GetMonth(t) == CalendarDays[DaySlot(t)].m - 1
GetDate(t) == CalendarDays[DaySlot(t)].d

\* `${y}-${String(m + 1).padStart(2, '0')}-${String(d).padStart(2, '0')}`
DateKey(t) ==
    Str(GetFullYear(t)) \o <<"-">> \o PadStart2(Str(GetMonth(t) + 1))
        \o <<"-">> \o PadStart2(Str(GetDate(t)))

\* toLocaleTimeString('en-GB', { hour12: false }): "HH:mm:ss"
TimeStr(t) ==
    LET ms == t % MsPerDay
    IN PadStart2(Str(ms \div 3600000)) \o <<":">>
         \o PadStart2(Str((ms % 3600000) \div 60000)) \o <<":">>
         \o PadStart2(Str((ms % 60000) \div 1000))

\* Days of a month of the Gregorian calendar.
DaysInMonth(y, m) ==
    IF m = 2 THEN (IF (y % 4 = 0 /\ y % 100 # 0) \/ y % 400 = 0 THEN 29 ELSE 28)
    ELSE IF m \in {4, 6, 9, 11} THEN 30 ELSE 31

\* new Date(value + 'T00:00:00') in V8, for value in one of the ECMAScript date
\* forms YYYY, YYYY-MM, YYYY-MM-DD (month and day default to 1): Invalid Date
\* unless 1 <= month <= 12 and 1 <= day <= 31; a day past the end of its month
\* rolls over into the next month. The result is the local [y, m, d].
\* Strings of any other shape go to V8's legacy parser, which is not modelled
\* (Null here); no modelled request uses one with the date filter.
NewDate(value) ==
    LET parts == Split(value)
        ok == /\ Len(parts) \in 1..3
              /\ Len(parts[1]) = 4
              /\ \A i \in 2..Len(parts) : Len(parts[i]) = 2
              /\ \A i \in 1..Len(parts) : DigitPrefixLen(parts[i]) = Len(parts[i])
        y == DigitsValue(parts[1])
        m == IF Len(parts) >= 2 THEN DigitsValue(parts[2]) ELSE 1
        d == IF Len(parts) >= 3 THEN DigitsValue(parts[3]) ELSE 1
    IN IF ~ok \/ m \notin 1..12 \/ d \notin 1..31 THEN Null
       ELSE IF d <= DaysInMonth(y, m) THEN Some([y |-> y, m |-> m, d |-> d])
       ELSE IF m = 12 THEN Some([y |-> y + 1, m |-> 1, d |-> d - DaysInMonth(y, m)])
       ELSE Some([y |-> y, m |-> m + 1, d |-> d - DaysInMonth(y, m)])

-----------------------------------------------------------------------------
\* calculateStats. A device record has the id fields user_id, uid, userId and
\* deviceUserId (Absent when missing), the timestamp record_time and the
\* status codes state and status (0 when missing).

\* A finite map (a JavaScript object used as a dictionary).
EmptyMap == <<>>
Put(f, k, v) == [x \in (DOMAIN f) \cup {k} |-> IF x = k THEN v ELSE f[x]]

\* log.state || log.status
PunchType(log) == IF log.state # 0 THEN log.state ELSE log.status

\* { ...log, date: new Date(ts), userId: String(log.user_id || log.uid || log.userId) }
Normalise(log) ==
    [date |-> log.record_time,
     userId |-> String(OrId(log.user_id, OrId(log.uid, log.userId))),
     state |-> log.state,
     status |-> log.status]

\* .sort((a, b) => a.date - b.date): a stable sort, ascending by date.
RECURSIVE InsertSorted(_, _)
InsertSorted(s, x) ==
    IF s = <<>> THEN <<x>>
    ELSE IF s[Len(s)].date <= x.date THEN Append(s, x)
    ELSE Append(InsertSorted(SubSeq(s, 1, Len(s) - 1), x), s[Len(s)])

RECURSIVE SortByDate(_)
SortByDate(s) ==
    IF s = <<>> THEN <<>>
    ELSE InsertSorted(SortByDate(SubSeq(s, 1, Len(s) - 1)), s[Len(s)])

SortedRecords(recs) ==
    SortByDate([i \in 1..Len(recs) |-> Normalise(recs[i])])

\* { firstIn: null, lastOut: null, totalMs: 0, lastCheckIn: null, rawLogs: [] }
EmptyDay ==
    [firstIn |-> Null, lastOut |-> Null, totalMs |-> 0, lastCheckIn |-> Null,
     rawLogs |-> <<>>]

\* Mutant of CheckOutDay: the duration is added whether or not a checkIn is open,
\* counted from firstIn.
CheckOutDayFromFirstIn(day, t) ==
    [day EXCEPT !.lastOut = Some(t),
                !.totalMs = IF day.firstIn # Null THEN @ + (t - day.firstIn[1]) ELSE @,
                !.lastCheckIn = Null]

\* The checkOut branch of the forEach body on the day's bucket.
CheckOutDay(day, t) ==
    [day EXCEPT !.lastOut = Some(t),
                !.totalMs = IF day.lastCheckIn # Null
                            THEN @ + (t - day.lastCheckIn[1]) ELSE @,
                !.lastCheckIn = Null]

\* The checkIn branch of the forEach body on the day's bucket.
CheckInDay(day, t) ==
    [day EXCEPT !.firstIn = IF @ = Null THEN Some(t) ELSE @,
                !.lastCheckIn = Some(t)]

\* Mutant of BucketKey: every punch of an employee lands in the bucket of the
\* first calendar day, so an open checkIn is carried over midnight.
BucketKeyOneDay(log) == DateKey(0)

\* The day bucket a punch belongs to: its own local calendar date.
BucketKey(log) == DateKey(log.date)

\* The forEach body: one sorted record applied to stats and currentStatus.
ProcessLog(st, log) ==
    LET uid == log.userId
        dateKey == BucketKey(log)
        isCheckOut == PunchType(log) = 1
        byDay == IF uid \in DOMAIN st.stats THEN st.stats[uid] ELSE EmptyMap
        day0 == IF dateKey \in DOMAIN byDay THEN byDay[dateKey] ELSE EmptyDay
        day1 == [day0 EXCEPT !.rawLogs =
                    Append(@, [time |-> TimeStr(log.date),
                               type |-> IF isCheckOut THEN "check_out" ELSE "check_in"])]
        day2 == IF isCheckOut THEN CheckOutDay(day1, log.date)
                ELSE CheckInDay(day1, log.date)
    IN [stats |-> Put(st.stats, uid, Put(byDay, dateKey, day2)),
        currentStatus |->
            Put(st.currentStatus, uid,
                [state |-> IF isCheckOut THEN "Out" ELSE "In", time |-> log.date])]

RECURSIVE ProcessAll(_, _)
ProcessAll(st, logs) ==
    IF logs = <<>> THEN st ELSE ProcessAll(ProcessLog(st, Head(logs)), Tail(logs))

\* One entry of formattedStats.
FormatDay(s) ==
    [duration |-> Str(s.totalMs \div 3600000) \o <<"h", " ">>
                    \o Str((s.totalMs % 3600000) \div 60000) \o <<"m">>,
     firstIn |-> IF s.firstIn # Null THEN TimeStr(s.firstIn[1]) ELSE <<"-">>,
     lastOut |-> IF s.lastOut # Null THEN TimeStr(s.lastOut[1]) ELSE <<"-">>,
     totalMs |-> s.totalMs,
     logs |-> s.rawLogs]

\* Mutant of LiveState: no stale-punch correction.
LiveStateUncorrected(cur, nowDate) == cur.state

\* The stale-punch correction: In becomes Out when the punch is not of today.
LiveState(cur, nowDate) ==
    IF cur.state = "In" /\ DateKey(cur.time) # DateKey(nowDate) THEN "Out"
    ELSE cur.state

\* Two empty objects.
NoStats == [stats |-> EmptyMap, currentStatus |-> EmptyMap]

\* Mutant of NewStats: the call goes on from the objects the previous call built.
NewStatsCarried(left) == left

\* const stats = {}; const currentStatus = {}: a call starts from two new empty
\* objects, whatever objects (left) the calls before it built.
NewStats(left) == NoStats

\* stats and currentStatus once the forEach has run, in a call made after
\* earlier calls built left.
StatsAfter(left, recs) == ProcessAll(NewStats(left), SortedRecords(recs))

\* calculateStats(records), called when the local time is nowDate, after
\* earlier calls built left.
calculateStatsAfter(left, recs, nowDate) ==
    LET st == StatsAfter(left, recs)
    IN [dailyStats |->
            [uid \in DOMAIN st.stats |->
                [date \in DOMAIN st.stats[uid] |-> FormatDay(st.stats[uid][date])]],
        activeStatus |->
            [uid \in DOMAIN st.currentStatus |->
                [state |-> LiveState(st.currentStatus[uid], nowDate),
                 time |-> st.currentStatus[uid].time]]]

\* calculateStats(records), called when the local time is nowDate.
calculateStats(recs, nowDate) == calculateStatsAfter(NoStats, recs, nowDate)

-----------------------------------------------------------------------------
\* getUnifiedData, lines 177-255: the formatted logs, the two filters and the
\* result, computed from the records the device returned. filterType "" and
\* filterValue <<>> stand for a missing or empty parameter (both falsy).

\* The formatted log of one record (userName and deviceSN left out).
FormatLog(log) ==
    [uid |-> OrId(log.user_id, OrId(log.uid, OrId(log.deviceUserId, "N/A"))),
     timestamp |-> log.record_time,
     status |-> PunchType(log)]

\* filterType || 'date'
ActiveFilterType(filterType) == IF filterType # "" THEN filterType ELSE "date"

\* filterValue || todayStr
ActiveFilterValue(filterValue, nowDate) ==
    IF filterValue # <<>> THEN filterValue ELSE DateKey(nowDate)

\* Mutant of LogMatches: the date filter compares year and month only.
LogMatchesNoDay(d, type, value) ==
    IF type = "date" THEN
        LET t == NewDate(value)
        IN t # Null /\ GetFullYear(d) = t[1].y /\ GetMonth(d) = t[1].m - 1
    ELSE IF type = "month" THEN
        LET parts == Split(value)
            y == ParseInt(parts[1])
            m == IF Len(parts) >= 2 THEN ParseInt(parts[2]) ELSE Null
        IN /\ y # Null /\ GetFullYear(d) = y[1]
           /\ m # Null /\ GetMonth(d) + 1 = m[1]
    ELSE IF type = "year" THEN
        LET y == ParseInt(value)
        IN y # Null /\ GetFullYear(d) = y[1]
    ELSE TRUE

\* The predicate of filteredLogs.filter, on a log's _date d.
LogMatches(d, type, value) ==
    IF type = "date" THEN
        LET t == NewDate(value)
        IN /\ t # Null
           /\ GetFullYear(d) = t[1].y
           /\ GetMonth(d) = t[1].m - 1
           /\ GetDate(d) = t[1].d
    ELSE IF type = "month" THEN
        LET parts == Split(value)
            y == ParseInt(parts[1])
            m == IF Len(parts) >= 2 THEN ParseInt(parts[2]) ELSE Null
        IN /\ y # Null /\ GetFullYear(d) = y[1]
           /\ m # Null /\ GetMonth(d) + 1 = m[1]
    ELSE IF type = "year" THEN
        LET y == ParseInt(value)
        IN y # Null /\ GetFullYear(d) = y[1]
    ELSE TRUE

\* The match computed for one dateKey of the summary.
SummaryMatches(dateKey, type, value) ==
    IF type = "date" THEN dateKey = value
    ELSE IF type = "month" THEN StartsWith(dateKey, value)
    ELSE IF type = "year" THEN StartsWith(dateKey, value)
    ELSE TRUE

\* s.filter(keep), for a predicate given as the set of kept positions.
RECURSIVE KeepAt(_, _, _)
KeepAt(s, keep, i) ==
    IF i > Len(s) THEN <<>>
    ELSE (IF i \in keep THEN <<s[i]>> ELSE <<>>) \o KeepAt(s, keep, i + 1)

\* s.reverse()
Reverse(s) == [i \in 1..Len(s) |-> s[Len(s) + 1 - i]]

\* The summary filter, dropping the employees left without a day.
FilterSummary(dailyStats, type, value) ==
    LET kept(uid) == {k \in DOMAIN dailyStats[uid] : SummaryMatches(k, type, value)}
    IN [uid \in {u \in DOMAIN dailyStats : kept(u) # {}} |->
            [k \in kept(uid) |-> dailyStats[uid][k]]]

\* The value getUnifiedData resolves to once the device has returned records,
\* in a call made after earlier calculateStats calls built left.
getUnifiedDataAfter(left, recs, filterType, filterValue, nowDate) ==
    LET type == ActiveFilterType(filterType)
        value == ActiveFilterValue(filterValue, nowDate)
        logs == [i \in 1..Len(recs) |-> FormatLog(recs[i])]
        keep == {i \in 1..Len(logs) : LogMatches(logs[i].timestamp, type, value)}
        finalLogs == Reverse(KeepAt(logs, keep, 1))
        stats == calculateStatsAfter(left, recs, nowDate)
    IN [success |-> TRUE,
        count |-> Len(finalLogs),
        filterInfo |-> [type |-> type, value |-> value],
        data |-> finalLogs,
        summary |-> FilterSummary(stats.dailyStats, type, ActiveFilterValue(filterValue, nowDate)),
        employeeStatus |-> stats.activeStatus]

\* The value getUnifiedData resolves to once the device has returned records.
getUnifiedData(recs, filterType, filterValue, nowDate) ==
    getUnifiedDataAfter(NoStats, recs, filterType, filterValue, nowDate)

-----------------------------------------------------------------------------
\* executeZKAction, lines 40-56: the checks made before the connection opens.

\* Math.ceil((cooldownUntil - now) / 1000)
Remaining(n) == (cooldownUntil - n + 999) \div 1000

\* now < cooldownUntil
InCooldown(n) == n < cooldownUntil

\* Mutant of StuckReset: the threshold compared with >= instead of >.
StuckResetAtLeast(n) == isDeviceBusy /\ (n - lastBusyReset >= StuckMs)

\* isDeviceBusy && (now - lastBusyReset > 40000)
StuckReset(n) == isDeviceBusy /\ (n - lastBusyReset > StuckMs)

\* Mutant of Outcome: the busy check made before the cooldown check.
OutcomeBusyFirst(n) ==
    IF isDeviceBusy /\ ~StuckReset(n) THEN "busy"
    ELSE IF InCooldown(n) THEN "cooldown"
    ELSE "admitted"

\* The branch the call takes: cooldown first, then the emergency reset, then busy.
Outcome(n) ==
    IF InCooldown(n) THEN "cooldown"
    ELSE IF isDeviceBusy /\ ~StuckReset(n) THEN "busy"
    ELSE "admitted"

\* What zk.createSocket() or the action can reject with: an Error, an object
\* without a message (the library's own error shapes), an object that
\* JSON.stringify cannot serialise, a string and undefined. json is what
\* JSON.stringify returns for the value (Null when it throws), str what
\* String() returns.
Thrown ==
    {[type |-> "object", truthy |-> TRUE, message |-> "TIMEOUT", json |-> Some("{}"),
      str |-> "Error: TIMEOUT"],
     [type |-> "object", truthy |-> TRUE, message |-> Absent,
      json |-> Some("{\"err\":{},\"ip\":\"192.168.18.144\"}"), str |-> "[object Object]"],
     [type |-> "object", truthy |-> TRUE, message |-> Absent, json |-> Null,
      str |-> "[object Object]"],
     [type |-> "string", truthy |-> TRUE, message |-> Absent,
      json |-> Some("\"ECONNRESET\""), str |-> "ECONNRESET"],
     [type |-> "undefined", truthy |-> FALSE, message |-> Absent, json |-> Null,
      str |-> "undefined"]}

\* The catch block's errMsg (lines 65-72).
NormaliseError(err) ==
    IF err.truthy /\ err.message # Absent THEN err.message
    ELSE IF err.type = "object"
         THEN (IF err.json # Null THEN err.json[1] ELSE err.str)
    ELSE IF err.truthy THEN err.str
    ELSE "Unknown Communication Error"

\* How the call of slot p ends once its finally block has run: it returns the
\* action's result, or throws new Error(errMsg).
Settle(p) ==
    IF failed[p] THEN [kind |-> "threw", message |-> errMsg[p]]
    ELSE [kind |-> "returned", message |-> Null]

\* What zk.disconnect() can do in the finally block: resolve, or reject (the
\* socket is already closed, or was never opened).
CloseOutcomes == {Null, Some("Socket already closed")}

\* Mutant of CloseCaught: the error of zk.disconnect() leaves the finally block.
CloseEscapes(c) == c

\* try { await zk.disconnect() } catch (e) {}: the error that leaves the
\* statement, Null if none does.
CloseCaught(c) == Null

\* How the call of slot p ends when zk.disconnect() ended as c: an error thrown
\* inside the finally block would replace the call's own result.
SettleAfterClose(p, c) ==
    IF CloseCaught(c) # Null THEN [kind |-> "threw", message |-> CloseCaught(c)]
    ELSE Settle(p)

\* The /api/users handler ends with finally { isDeviceBusy = false }, whether
\* executeZKAction was admitted or threw.
BusyAfterReject(c) == IF c = "users" THEN FALSE ELSE isDeviceBusy

\* No call made yet.
NoAgg == [called |-> FALSE, nowDate |-> 0, stats |-> calculateStats(<<>>, 0)]
NoOut == [called |-> FALSE, filterType |-> "", filterValue |-> <<>>, nowDate |-> 0,
          result |-> getUnifiedData(<<>>, "", <<>>, 0)]

CoordInit ==
    /\ now = 0
    /\ isDeviceBusy = FALSE
    /\ lastBusyReset = 0
    /\ cooldownUntil = 0
    /\ pc = [p \in Procs |-> "idle"]
    /\ forced = [p \in Procs |-> FALSE]
    /\ failed = [p \in Procs |-> FALSE]
    /\ resp = [kind |-> "none", remaining |-> 0, fail |-> -1]
    /\ lastFail = -1
    /\ errMsg = [p \in Procs |-> Null]
    /\ settled = [kind |-> "none", message |-> Null]
    /\ closed = "none"

\* No read made yet.
NoCall ==
    [made |-> FALSE, ok |-> FALSE, after |-> "none", logs |-> <<>>,
     request |-> <<"", <<>>>>, nowDate |-> 0, result |-> [success |-> FALSE]]

DataInit ==
    /\ records = <<>>
    /\ agg = NoAgg
    /\ out = NoOut
    /\ thisRead = NoCall
    /\ pastRead = NoCall
    /\ leftover = NoStats

\* A handler slot with no sync handler in it.
IdleJob ==
    [pc |-> "idle", path |-> "", started |-> 0, slot |-> 0, request |-> <<"", <<>>>>,
     fetched |-> FALSE, logsRaw |-> <<>>, usersRaw |-> <<>>, payload |-> <<>>,
     attempts |-> <<>>]

\* No response sent in the last step.
NoReply == [route |-> "", code |-> 0, body |-> [success |-> TRUE]]

\* lines 11-13
SyncInit ==
    /\ autoSyncEnabled = TRUE
    /\ lastAutoSyncAttempt = Null
    /\ lastAutoSyncSuccess = Null
    /\ job = [j \in Jobs |-> IdleJob]
    /\ delivered = <<>>
    /\ reply = NoReply

\* A summary that no checkOut has added to yet.
FormatInit ==
    /\ workedMs = 0
    /\ workedText = FormatTotal(0)
    /\ workedSpans = 0

Init == CoordInit /\ DataInit /\ SyncInit /\ FormatInit

\* A call made during the cool down throws "Device recovery in progress".
RejectCooldown(c) ==
    /\ Outcome(now) = "cooldown"
    /\ resp' = [kind |-> "cooldown", remaining |-> Remaining(now), fail |-> lastFail]
    /\ isDeviceBusy' = BusyAfterReject(c)
    /\ UNCHANGED <<now, lastBusyReset, cooldownUntil, pc, forced, failed,
                   lastFail, errMsg, settled, closed>>

\* A call made while the flag is set (and not stuck) throws "Device is busy".
RejectBusy(c) ==
    /\ Outcome(now) = "busy"
    /\ resp' = [kind |-> "busy", remaining |-> 0, fail |-> lastFail]
    /\ isDeviceBusy' = BusyAfterReject(c)
    /\ UNCHANGED <<now, lastBusyReset, cooldownUntil, pc, forced, failed,
                   lastFail, errMsg, settled, closed>>

\* An admitted call sets the flag, stamps lastBusyReset and starts createSocket.
\* It takes the lowest free request slot.
Admit(p, c) ==
    /\ pc[p] = "idle"
    /\ \A q \in Procs : q < p => pc[q] # "idle"
    /\ Outcome(now) = "admitted"
    /\ isDeviceBusy' = TRUE
    /\ lastBusyReset' = now
    /\ pc' = [pc EXCEPT ![p] = "connecting"]
    /\ forced' = [forced EXCEPT ![p] = StuckReset(now)]
    /\ resp' = [kind |-> "admitted", remaining |-> 0, fail |-> lastFail]
    /\ UNCHANGED <<now, cooldownUntil, failed, lastFail, errMsg, settled, closed>>

\* await zk.createSocket() resolves.
CreateSocketOk(p) ==
    /\ pc[p] = "connecting"
    /\ pc' = [pc EXCEPT ![p] = "acting"]
    /\ UNCHANGED <<now, isDeviceBusy, lastBusyReset, cooldownUntil, forced,
                   failed, resp, lastFail, errMsg, settled, closed>>

\* Mutant of Fail: the catch block rethrows without arming the cool down.
FailNoCooldown(p) ==
    /\ \E err \in Thrown : errMsg' = [errMsg EXCEPT ![p] = Some(NormaliseError(err))]
    /\ lastFail' = now
    /\ pc' = [pc EXCEPT ![p] = "closing"]
    /\ failed' = [failed EXCEPT ![p] = TRUE]
    /\ UNCHANGED <<now, isDeviceBusy, lastBusyReset, cooldownUntil, forced, resp,
                   settled, closed>>

\* The catch block: the error is normalised to errMsg, cooldownUntil =
\* Date.now() + 15000, new Error(errMsg) is thrown; the finally block then
\* starts zk.disconnect().
Fail(p) ==
    /\ \E err \in Thrown : errMsg' = [errMsg EXCEPT ![p] = Some(NormaliseError(err))]
    /\ cooldownUntil' = now + CooldownMs
    /\ lastFail' = now
    /\ pc' = [pc EXCEPT ![p] = "closing"]
    /\ failed' = [failed EXCEPT ![p] = TRUE]
    /\ UNCHANGED <<now, isDeviceBusy, lastBusyReset, forced, resp, settled, closed>>

\* await zk.createSocket() rejects (refused, or the 10s timeout).
CreateSocketFail(p) ==
    /\ pc[p] = "connecting"
    /\ Fail(p)

\* await action(zk) resolves; the finally block starts zk.disconnect().
ActionOk(p) ==
    /\ pc[p] = "acting"
    /\ pc' = [pc EXCEPT ![p] = "closing"]
    /\ UNCHANGED <<now, isDeviceBusy, lastBusyReset, cooldownUntil, forced,
                   failed, resp, lastFail, errMsg, settled, closed>>

\* await action(zk) rejects.
ActionFail(p) ==
    /\ pc[p] = "acting"
    /\ Fail(p)

\* zk.disconnect() settles (a rejection is swallowed); isDeviceBusy = false and
\* the call returns or throws to its caller (whose own finally, in /api/users,
\* clears the flag once more).
Disconnected(p) ==
    /\ pc[p] = "closing"
    /\ \E c \in CloseOutcomes :
         /\ closed' = IF c = Null THEN "resolved" ELSE "rejected"
         /\ settled' = SettleAfterClose(p, c)
         /\ isDeviceBusy' = IF CloseCaught(c) # Null THEN isDeviceBusy ELSE FALSE
    /\ pc' = [pc EXCEPT ![p] = "idle"]
    /\ forced' = [forced EXCEPT ![p] = FALSE]
    /\ failed' = [failed EXCEPT ![p] = FALSE]
    /\ errMsg' = [errMsg EXCEPT ![p] = Null]
    /\ UNCHANGED <<now, lastBusyReset, cooldownUntil, resp, lastFail>>

\* Time passes.
Tick(d) ==
    /\ now + d <= MaxTime
    /\ now' = now + d
    /\ UNCHANGED <<isDeviceBusy, lastBusyReset, cooldownUntil, pc, forced,
                   failed, resp, lastFail, errMsg, settled, closed>>

CoordNext ==
    \/ \E c \in Callers : RejectCooldown(c)
    \/ \E c \in Callers : RejectBusy(c)
    \/ \E p \in Procs, c \in Callers : Admit(p, c)
    \/ \E p \in Procs : CreateSocketOk(p)
    \/ \E p \in Procs : CreateSocketFail(p)
    \/ \E p \in Procs : ActionOk(p)
    \/ \E p \in Procs : ActionFail(p)
    \/ \E p \in Procs : Disconnected(p)
    \/ \E d \in TickSteps : Tick(d)

Next == CoordNext /\ UNCHANGED dataVars /\ UNCHANGED syncVars /\ UNCHANGED formatVars

Spec == Init /\ [][Next]_vars

-----------------------------------------------------------------------------
\* The aggregator and the filter applied to bounded device logs.

Rec(u, t, st) ==
    [user_id |-> u, uid |-> Absent, userId |-> Absent, deviceUserId |-> Absent,
     record_time |-> t, state |-> st, status |-> 0]

\* Local times of day.
At0030 == 30 * 60000
At0900 == 9 * 3600000
At1730 == (17 * 3600000) + (30 * 60000)

\* Punches of two employees over two adjacent days (slots 1 and 2).
StatsPunches ==
    {Rec(u, t, st) : u \in {"1", "2"},
                     t \in {At0900, At1730, MsPerDay + At0030, MsPerDay + At0900},
                     st \in {0, 1}}

\* The local time of a calculateStats call: on the second or the third day.
StatsNows == {MsPerDay + At1730, (2 * MsPerDay) + At0900}

\* The device records one more punch; the previous response is dropped.
PunchStats(r) ==
    /\ Len(records) < MaxRecords
    /\ records' = Append(records, r)
    /\ agg' = NoAgg
    /\ UNCHANGED <<out, repeatVars>>

\* calculateStats runs on the device's records (one call per device state).
Aggregate(n) ==
    /\ ~agg.called
    /\ agg' = [called |-> TRUE, nowDate |-> n, stats |-> calculateStats(records, n)]
    /\ UNCHANGED <<records, out, repeatVars>>

StatsNext ==
    /\ \/ \E r \in StatsPunches : PunchStats(r)
       \/ \E n \in StatsNows : Aggregate(n)
    /\ UNCHANGED coordVars
    /\ UNCHANGED syncVars
    /\ UNCHANGED formatVars

SpecStats == Init /\ [][StatsNext]_vars

-----------------------------------------------------------------------------
\* Aggregator: properties, stated on the device records themselves.

\* The employee, time, day and kind of the i-th device record.
EmpOf(recs, i) == String(OrId(recs[i].user_id, OrId(recs[i].uid, recs[i].userId)))
TimeOf(recs, i) == recs[i].record_time
DayOf(recs, i) == DateKey(recs[i].record_time)
IsOut(recs, i) == PunchType(recs[i]) = 1

\* Record j comes before record i in ascending time order (ties in device order).
Before(recs, j, i) ==
    \/ TimeOf(recs, j) < TimeOf(recs, i)
    \/ (TimeOf(recs, j) = TimeOf(recs, i) /\ j < i)

\* The records of employee u on day D.
Bucket(recs, u, D) ==
    {i \in 1..Len(recs) : EmpOf(recs, i) = u /\ DayOf(recs, i) = D}

\* The record just before record i among those of its employee and day.
PrevInBucket(recs, i) ==
    LET B == Bucket(recs, EmpOf(recs, i), DayOf(recs, i))
    IN {j \in B : /\ Before(recs, j, i)
                  /\ \A k \in B : ~(Before(recs, j, k) /\ Before(recs, k, i))}

\* The duration record i closes: a checkOut right after an open checkIn.
PairedMs(recs, i) ==
    IF IsOut(recs, i) /\ \E j \in PrevInBucket(recs, i) : ~IsOut(recs, j)
    THEN TimeOf(recs, i) - TimeOf(recs, CHOOSE j \in PrevInBucket(recs, i) : TRUE)
    ELSE 0

RECURSIVE SumPaired(_, _)
SumPaired(recs, S) ==
    IF S = {} THEN 0
    ELSE LET i == CHOOSE x \in S : TRUE
         IN PairedMs(recs, i) + SumPaired(recs, S \ {i})

\* The day's events in ascending time order, as rawLogs entries.
ExpectedLogs(recs, B) ==
    [k \in 1..Cardinality(B) |->
        LET i == CHOOSE x \in B : Cardinality({j \in B : Before(recs, j, x)}) = k - 1
        IN [time |-> TimeStr(TimeOf(recs, i)),
            type |-> IF IsOut(recs, i) THEN "check_out" ELSE "check_in"]]

Employees(recs) == {EmpOf(recs, i) : i \in 1..Len(recs)}
DaysOfEmp(recs, u) == {DayOf(recs, i) : i \in {x \in 1..Len(recs) : EmpOf(recs, x) = u}}

FirstInOf(recs, B) ==
    LET ins == {i \in B : ~IsOut(recs, i)}
    IN IF ins = {} THEN Null
       ELSE Some(TimeOf(recs, CHOOSE i \in ins :
                                 \A j \in ins : TimeOf(recs, i) <= TimeOf(recs, j)))
LastOutOf(recs, B) ==
    LET outs == {i \in B : IsOut(recs, i)}
    IN IF outs = {} THEN Null
       ELSE Some(TimeOf(recs, CHOOSE i \in outs :
                                 \A j \in outs : TimeOf(recs, i) >= TimeOf(recs, j)))

Without(recs, i) == SubSeq(recs, 1, i - 1) \o SubSeq(recs, i + 1, Len(recs))

\* C5: a checkOut changes no bucket but the one of its own employee and day (a
\* checkIn left open on day D is not closed by a checkOut of day D+1), and it
\* adds no duration to its own day unless that day has a checkIn before it; it
\* is recorded as lastOut and in logs of its own day.
C5_NoCarry ==
    agg.called =>
        \A i \in 1..Len(records) :
            IsOut(records, i) =>
                LET ds == agg.stats.dailyStats
                    u == EmpOf(records, i)
                    D == DayOf(records, i)
                    ds2 == calculateStats(Without(records, i), agg.nowDate).dailyStats
                    had == u \in DOMAIN ds2 /\ D \in DOMAIN ds2[u]
                IN /\ \A v \in DOMAIN ds : \A E \in DOMAIN ds[v] :
                        (v # u \/ E # D) =>
                            /\ v \in DOMAIN ds2
                            /\ E \in DOMAIN ds2[v]
                            /\ ds2[v][E] = ds[v][E]
                   /\ ds[u][D].lastOut # <<"-">>
                   /\ \E k \in 1..Len(ds[u][D].logs) :
                        ds[u][D].logs[k] = [time |-> TimeStr(TimeOf(records, i)),
                                            type |-> "check_out"]
                   /\ (\A j \in Bucket(records, u, D) :
                          Before(records, j, i) => IsOut(records, j))
                        => ds[u][D].totalMs = (IF had THEN ds2[u][D].totalMs ELSE 0)

\* C5 witness: an employee's checkIn on one day is followed by a checkOut on
\* the next day, and both days total 0.
C5_Witness ==
    /\ agg.called
    /\ Len(records) = 2
    /\ ~IsOut(records, 1) /\ IsOut(records, 2)
    /\ EmpOf(records, 1) = EmpOf(records, 2)
    /\ DaySlot(TimeOf(records, 2)) = DaySlot(TimeOf(records, 1)) + 1
    /\ \A D \in DOMAIN agg.stats.dailyStats[EmpOf(records, 1)] :
         agg.stats.dailyStats[EmpOf(records, 1)][D].totalMs = 0

\* The chronologically last record of employee u.
LastOf(recs, u) ==
    CHOOSE i \in 1..Len(recs) :
        /\ EmpOf(recs, i) = u
        /\ \A j \in 1..Len(recs) : (EmpOf(recs, j) = u /\ j # i) => Before(recs, j, i)

\* C6: each employee's live status is In or Out after the kind of that
\* employee's chronologically last event, and Out whenever that event's date
\* is not today; the summaries are the same whatever today is. An employee
\* whose only punch, yesterday, is a checkIn has totalMs 0, firstIn set,
\* lastOut "-" and status Out.
C6_LiveStatus ==
    agg.called =>
        LET live == agg.stats.activeStatus
        IN /\ DOMAIN live = Employees(records)
           /\ \A u \in DOMAIN live :
                LET i == LastOf(records, u)
                IN /\ live[u].time = TimeOf(records, i)
                   /\ live[u].state =
                        (IF DayOf(records, i) # DateKey(agg.nowDate) THEN "Out"
                         ELSE IF IsOut(records, i) THEN "Out" ELSE "In")
           /\ \A n \in StatsNows :
                calculateStats(records, n).dailyStats = agg.stats.dailyStats
           /\ (/\ Len(records) = 1
               /\ ~IsOut(records, 1)
               /\ DaySlot(agg.nowDate) = DaySlot(TimeOf(records, 1)) + 1)
                => LET u == EmpOf(records, 1)
                       s == agg.stats.dailyStats[u][DayOf(records, 1)]
                   IN /\ s.totalMs = 0
                      /\ s.firstIn = TimeStr(TimeOf(records, 1))
                      /\ s.lastOut = <<"-">>
                      /\ live[u].state = "Out"

\* C6 witness: the only punch is yesterday's checkIn and the status is Out.
C6_Witness ==
    /\ agg.called
    /\ Len(records) = 1
    /\ ~IsOut(records, 1)
    /\ DaySlot(agg.nowDate) = DaySlot(TimeOf(records, 1)) + 1
    /\ agg.stats.activeStatus[EmpOf(records, 1)].state = "Out"

-----------------------------------------------------------------------------
\* The read path on bounded device logs.

\* A string literal as a sequence of characters.
D2024_12_01 == <<"2", "0", "2", "4", "-", "1", "2", "-", "0", "1">>
D2024_12_31 == <<"2", "0", "2", "4", "-", "1", "2", "-", "3", "1">>
D2024_11_31 == <<"2", "0", "2", "4", "-", "1", "1", "-", "3", "1">>
D2025_01_01 == <<"2", "0", "2", "5", "-", "0", "1", "-", "0", "1">>
M2024_12 == <<"2", "0", "2", "4", "-", "1", "2">>
M2025_01 == <<"2", "0", "2", "5", "-", "0", "1">>
M2025_1 == <<"2", "0", "2", "5", "-", "1">>
Y2024 == <<"2", "0", "2", "4">>
Y2025 == <<"2", "0", "2", "5">>
Y202 == <<"2", "0", "2">>

\* The requests of the read path: <<type, value>>.
Requests ==
    {<<"date", v>> : v \in {<<>>, D2024_12_01, D2024_12_31, D2024_11_31, D2025_01_01,
                             M2024_12}}
    \cup {<<"month", v>> : v \in {M2024_12, M2025_01, M2025_1, D2024_12_01, Y2025}}
    \cup {<<"year", v>> : v \in {Y2024, Y2025, Y202, M2025_01}}
    \cup {<<"", v>> : v \in {<<>>, D2024_12_01}}
    \cup {<<"all", v>> : v \in {<<>>, D2024_12_01}}

\* One punch a day on each of the four calendar days, by two employees.
FilterPunches ==
    {Rec(u, ((k - 1) * MsPerDay) + At0900, 0) : u \in {"1", "2"}, k \in 1..4}

\* The local time of a read: on the second or the fourth day.
FilterNows == {MsPerDay + At1730, (3 * MsPerDay) + At1730}

PunchFilter(r) ==
    /\ Len(records) < MaxFilterRecords
    /\ records' = Append(records, r)
    /\ out' = NoOut
    /\ UNCHANGED <<agg, repeatVars>>

\* A read: getUnifiedData(type, value) on the device's records (one read per
\* device state).
Read(q, n) ==
    /\ ~out.called
    /\ out' = [called |-> TRUE, filterType |-> q[1], filterValue |-> q[2], nowDate |-> n,
               result |-> getUnifiedData(records, q[1], q[2], n)]
    /\ UNCHANGED <<records, agg, repeatVars>>

FilterNext ==
    /\ \/ \E r \in FilterPunches : PunchFilter(r)
       \/ \E q \in Requests, n \in FilterNows : Read(q, n)
    /\ UNCHANGED coordVars
    /\ UNCHANGED syncVars
    /\ UNCHANGED formatVars

SpecFilter == Init /\ [][FilterNext]_vars

-----------------------------------------------------------------------------
\* The device log with the employee id under varied field names, read with the
\* all-records filter.

\* A punch at 09:00 of the first day whose id fields are a, b, c and d.
AliasRec(a, b, c, d) ==
    [user_id |-> a, uid |-> b, userId |-> c, deviceUserId |-> d,
     record_time |-> At0900, state |-> 0, status |-> 0]

\* Every shape of record: each of user_id, uid, userId and deviceUserId present
\* (with a value of its own) or missing.
AliasPunches ==
    {AliasRec(a, b, c, d) : a \in {Absent, "1"}, b \in {Absent, "2"},
                            c \in {Absent, "3"}, d \in {Absent, "4"}}

PunchAlias(r) ==
    /\ Len(records) < MaxAliasRecords
    /\ records' = Append(records, r)
    /\ out' = NoOut
    /\ UNCHANGED <<agg, repeatVars>>

\* A read with filter type "all" (one read per device state).
ReadAll(n) ==
    /\ ~out.called
    /\ out' = [called |-> TRUE, filterType |-> "all", filterValue |-> <<>>, nowDate |-> n,
               result |-> getUnifiedData(records, "all", <<>>, n)]
    /\ UNCHANGED <<records, agg, repeatVars>>

AliasNext ==
    /\ \/ \E r \in AliasPunches : PunchAlias(r)
       \/ \E n \in FilterNows : ReadAll(n)
    /\ UNCHANGED coordVars
    /\ UNCHANGED syncVars
    /\ UNCHANGED formatVars

SpecAlias == Init /\ [][AliasNext]_vars

\* C26: with an all-records filter the employee ids keyed in the summary are
\* the employee ids of the returned logs, whichever of user_id, uid, userId and
\* deviceUserId the device's records carry the id under.
C26_SameEmployeeIds ==
    (out.called /\ out.filterType = "all")
        => DOMAIN out.result.summary
             = {String(out.result.data[i].uid) : i \in 1..Len(out.result.data)}

-----------------------------------------------------------------------------
\* The formatted total of a summary whose totalMs grows by whole durations.

\* The durations a checkOut can add: 1 ms, 999 ms, 59 s, 59 min, 10 h, 100 h.
WorkSpans == {1, 999, 59000, 3540000, 36000000, 360000000}

\* A checkOut adds a duration to totalMs (line 123); the payload record built
\* from the summary carries the formatted total.
Worked(d) ==
    /\ workedSpans < MaxSpans
    /\ workedSpans' = workedSpans + 1
    /\ workedMs' = workedMs + d
    /\ workedText' = FormatTotal(workedMs')

FormatNext ==
    /\ \E d \in WorkSpans : Worked(d)
    /\ UNCHANGED <<coordVars, dataVars, syncVars>>

SpecFormat == Init /\ [][FormatNext]_vars

\* A text of the shape d..d:dd:dd, and the numbers it reads as.
IsHms(f) ==
    /\ Len(f) >= 8
    /\ f[Len(f) - 5] = ":" /\ f[Len(f) - 2] = ":"
    /\ \A i \in (1..Len(f)) \ {Len(f) - 5, Len(f) - 2} : IsDigit(f[i])
HoursOf(f) == DigitsValue(SubSeq(f, 1, Len(f) - 6))
MinutesOf(f) == DigitsValue(SubSeq(f, Len(f) - 4, Len(f) - 3))
SecondsOf(f) == DigitsValue(SubSeq(f, Len(f) - 1, Len(f)))

\* C23: the HH:MM:SS text of a non-negative totalMs reads as h = totalMs div
\* 3600000, m = (totalMs mod 3600000) div 60000, s = (totalMs mod 60000) div
\* 1000, with m < 60, s < 60 and h*3600 + m*60 + s = totalMs div 1000.
C23_FormatTotal ==
    /\ workedMs >= 0
    /\ IsHms(workedText)
    /\ HoursOf(workedText) = workedMs \div 3600000
    /\ MinutesOf(workedText) = (workedMs % 3600000) \div 60000
    /\ SecondsOf(workedText) = (workedMs % 60000) \div 1000
    /\ MinutesOf(workedText) < 60
    /\ SecondsOf(workedText) < 60
    /\ (HoursOf(workedText) * 3600) + (MinutesOf(workedText) * 60)
          + SecondsOf(workedText) = workedMs \div 1000

\* C23 witness: 10 h 59 min 59 s and 999 ms are formatted as 10:59:59.
C23_Witness ==
    /\ workedMs = 36000000 + 3540000 + 59000 + 999
    /\ workedText = <<"1", "0", ":", "5", "9", ":", "5", "9">>

-----------------------------------------------------------------------------
\* Record filter: properties.

\* The (employee, local calendar date) pairs of the returned logs.
LogPairs(res) ==
    {<<String(res.data[i].uid), DateKey(res.data[i].timestamp)>> : i \in 1..Len(res.data)}

\* The local calendar dates of the returned logs.
LogDates(res) == {DateKey(res.data[i].timestamp) : i \in 1..Len(res.data)}

\* The (employee, date) keys of the returned summary.
SummaryKeys(res) ==
    UNION {{<<u, D>> : D \in DOMAIN res.summary[u]} : u \in DOMAIN res.summary}

\* A string of the shape dddd-dd-dd.
IsYmdShape(v) ==
    /\ Len(v) = 10
    /\ v[5] = "-" /\ v[8] = "-"
    /\ \A i \in {1, 2, 3, 4, 6, 7, 9, 10} : IsDigit(v[i])

\* A string dddd-dd-dd naming a day that exists.
IsCalendarDate(v) ==
    /\ IsYmdShape(v)
    /\ DigitsValue(SubSeq(v, 6, 7)) \in 1..12
    /\ DigitsValue(SubSeq(v, 9, 10)) \in
         1..DaysInMonth(DigitsValue(SubSeq(v, 1, 4)), DigitsValue(SubSeq(v, 6, 7)))

\* C7: for every filter type and value, the logs that pass the log filter and
\* the keys kept in the filtered summary cover the same (employee, date) pairs.
C7_SameWindow ==
    out.called => LogPairs(out.result) = SummaryKeys(out.result)

C9_MonthSuperset ==
    (out.called /\ out.result.filterInfo.type = "date"
        /\ IsYmdShape(out.result.filterInfo.value))
        => \A i \in 1..Len(out.result.data) :
              LogMatches(out.result.data[i].timestamp, "month",
                         SubSeq(out.result.filterInfo.value, 1, 7))

\* C10: a read whose filter type is empty or unrecognized returns every log
\* and every (employee, date) summary, whatever the value (stated for the
\* requests that give a value; with type and value both missing the read
\* defaults to today's date).
C10_PassThrough ==
    (out.called /\ out.filterType \notin {"date", "month", "year"}
        /\ out.filterValue # <<>>)
        => /\ out.result.data =
                Reverse([i \in 1..Len(records) |-> FormatLog(records[i])])
           /\ out.result.summary = calculateStats(records, out.nowDate).dailyStats

-----------------------------------------------------------------------------
\* Repeated reads: getUnifiedData called again and again (by /api/attendance
\* or by a sync handler) while the device's records grow and calls fail.

\* Two punches of one employee on the second calendar day.
RepeatPunches == {Rec("1", MsPerDay + At0900, 0), Rec("1", MsPerDay + At1730, 1)}

\* The filters of the repeated reads and the local times they are made at.
RepeatRequests == {<<"date", D2024_12_01>>, <<"", <<>>>>, <<"all", <<>>>>}
RepeatNows == {MsPerDay + At1730, (2 * MsPerDay) + At0900}

PunchRepeat(r) ==
    /\ Len(records) < MaxRepeatRecords
    /\ records' = Append(records, r)
    /\ UNCHANGED <<agg, out, repeatVars>>

\* How the read before this one ended.
PreviousCall ==
    IF ~thisRead.made THEN "none" ELSE IF thisRead.ok THEN "ok" ELSE "failed"

\* The earlier read kept for comparison stays, or becomes the read just before
\* this one.
KeepPast == pastRead' \in {pastRead, thisRead}

\* A read whose device call succeeded: getUnifiedData computes its result from
\* the records the device returned.
CallOk(q, n) ==
    /\ thisRead' = [made |-> TRUE, ok |-> TRUE,
               after |-> PreviousCall,
               logs |-> records, request |-> q, nowDate |-> n,
               result |-> getUnifiedDataAfter(leftover, records, q[1], q[2], n)]
    /\ leftover' = StatsAfter(leftover, records)
    /\ KeepPast
    /\ UNCHANGED <<records, agg, out>>

\* A read whose device call was rejected or failed: executeZKAction threw,
\* calculateStats did not run, the caller answers success = false.
CallFailed(q, n) ==
    /\ thisRead' = [made |-> TRUE, ok |-> FALSE,
               after |-> PreviousCall,
               logs |-> <<>>, request |-> q, nowDate |-> n,
               result |-> [success |-> FALSE]]
    /\ KeepPast
    /\ UNCHANGED <<records, agg, out, leftover>>

RepeatNext ==
    /\ \/ \E r \in RepeatPunches : PunchRepeat(r)
       \/ \E q \in RepeatRequests, n \in RepeatNows : CallOk(q, n)
       \/ \E q \in RepeatRequests, n \in RepeatNows : CallFailed(q, n)
    /\ UNCHANGED coordVars
    /\ UNCHANGED syncVars
    /\ UNCHANGED formatVars

SpecRepeat == Init /\ [][RepeatNext]_vars

-----------------------------------------------------------------------------
\* Cloud sync: postToCloud, performAutoDailySync and the routes
\* /api/auto-sync/* and /api/sync. A message is a sequence of string pieces.

\* The process starts five seconds before the local midnight that ends the
\* first calendar day; Clock(t) is new Date() when Date.now() is t.
ProcessStart == MsPerDay - 5000
Clock(t) == ProcessStart + t

CLOUD_HOST == "demo.jantrah.com"
CLOUD_IP == "72.60.181.228"

\* tryRequest(target, useIP): the options of the request it sends; outcome is
\* how the request ended, Null while it is in flight.
tryRequest(target, useIP) ==
    [hostname |-> target, host |-> CLOUD_HOST, rejectUnauthorized |-> ~useIP,
     outcome |-> Null]

\* The status codes the cloud answers with.
CloudStatuses == {200, 300, 500}

\* How a request ends: res 'end' with a status, or req 'error'.
CloudOutcomes ==
    {[kind |-> "response", status |-> st, message |-> ""] : st \in CloudStatuses}
    \cup {[kind |-> "error", status |-> 0, message |-> "connect ECONNREFUSED"]}

\* Mutant of NeedsFallback: a completed non-2xx response is retried too.
NeedsFallbackNon2xx(o) == o.kind = "error" \/ o.status < 200 \/ o.status >= 300

\* postToCloud's catch: the primary tryRequest promise was rejected.
NeedsFallback(o) == o.kind = "error"

\* syncResult.status >= 200 && syncResult.status < 300
IsSuccess(status) == status >= 200 /\ status < 300

\* getYesterdayDateString() at local time t: setDate(getDate() - 1).
getYesterdayDateString(t) ==
    LET y == GetFullYear(t)
        m == GetMonth(t) + 1
        d == GetDate(t)
        ymd == IF d > 1 THEN <<y, m, d - 1>>
               ELSE IF m > 1 THEN <<y, m - 1, DaysInMonth(y, m - 1)>>
               ELSE <<y - 1, 12, 31>>
    IN Str(ymd[1]) \o <<"-">> \o PadStart2(Str(ymd[2])) \o <<"-">> \o PadStart2(Str(ymd[3]))

\* /^\d{4}-\d{2}-\d{2}$/.test(date), after !date
DateFormatOk(date) ==
    /\ Len(date) = 10
    /\ \A i \in 1..10 : IF i \in {5, 8} THEN date[i] = "-" ELSE IsDigit(date[i])

\* A user of the device's list.
User(id, name) == [userId |-> id, user_id |-> Absent, uid |-> Absent, name |-> name]

\* userMap (lines 170-175): id by alias order, name || 'Unknown'.
RECURSIVE UserMapFrom(_, _)
UserMapFrom(m, us) ==
    IF us = <<>> THEN m
    ELSE LET u == Head(us)
             id == OrId(u.userId, OrId(u.user_id, u.uid))
         IN UserMapFrom(Put(m, String(id), IF u.name # "" THEN u.name ELSE "Unknown"),
                        Tail(us))

UserMap(usersRaw) == UserMapFrom(EmptyMap, usersRaw)

\* The (uid, date) keys the two nested for...in loops visit, in one fixed order.
RECURSIVE SetToSeq(_)
SetToSeq(S) ==
    IF S = {} THEN <<>>
    ELSE LET x == CHOOSE e \in S : TRUE IN <<x>> \o SetToSeq(S \ {x})

SummaryPairs(summary) ==
    UNION {{<<uid, date>> : date \in DOMAIN summary[uid]} : uid \in DOMAIN summary}

\* result.userNames[uid] || 'Unknown'
NameOf(names, uid) ==
    IF uid \in DOMAIN names /\ names[uid] # "" THEN names[uid] ELSE "Unknown"

\* The record performAutoDailySync pushes (lines 382-390).
AutoSyncRecord(uid, date, s, names) ==
    [employee_code_id |-> uid, name |-> NameOf(names, uid), date |-> date,
     first_Check_In |-> s.firstIn, last_check_out |-> s.lastOut,
     total_time_worked |-> FormatTotal(s.totalMs), logs |-> s.logs]

\* The record /api/auto-sync/sync-date pushes (lines 520-528).
SyncDateRecord(uid, date, s, names) ==
    [employee_code_id |-> uid, name |-> NameOf(names, uid), date |-> date,
     first_Check_In |-> s.firstIn, last_check_out |-> s.lastOut,
     total_time_worked |-> FormatTotal(s.totalMs), logs |-> s.logs]

\* The record /api/sync pushes (lines 586-593).
ApiSyncRecord(uid, date, s, names) ==
    [employee_code_id |-> uid, date |-> date,
     first_Check_In |-> s.firstIn, last_check_out |-> s.lastOut,
     total_time_worked |-> FormatTotal(s.totalMs), logs |-> s.logs]

SchedulerPaths == {"scheduled", "run-now"}

\* externalPayload of the handler on path, from result.summary and result.userNames.
BuildPayload(path, summary, names) ==
    LET keys == SetToSeq(SummaryPairs(summary))
        rec(k) == IF path \in SchedulerPaths
                  THEN AutoSyncRecord(k[1], k[2], summary[k[1]][k[2]], names)
                  ELSE IF path = "sync-date"
                  THEN SyncDateRecord(k[1], k[2], summary[k[1]][k[2]], names)
                  ELSE ApiSyncRecord(k[1], k[2], summary[k[1]][k[2]], names)
    IN [i \in 1..Len(keys) |-> rec(keys[i])]

\* The messages executeZKAction rejects a call with.
BusyMessage == <<"Device is busy. Please try again in 5-10 seconds.">>
CooldownMessage(r) ==
    <<"Device recovery in progress... Please wait ">> \o Str(r) \o <<"s">>
RejectMessage(n) ==
    IF Outcome(n) = "cooldown" THEN CooldownMessage(Remaining(n)) ELSE BusyMessage

\* How a handler's work ended: an error was thrown (by getUnifiedData or by
\* postToCloud), the payload was empty, or the cloud answered.
Threw(m) == [kind |-> "error", message |-> m, status |-> 0, n |-> 0]
Skipped == [kind |-> "skipped", message |-> <<>>, status |-> 0, n |-> 0]
Posted(st, n) == [kind |-> "posted", message |-> <<>>, status |-> st, n |-> n]

\* The value performAutoDailySync stores in lastAutoSyncSuccess.
AutoSyncResult(targetDate, how) ==
    IF how.kind = "error"
    THEN [targetDate |-> targetDate, status |-> "error", error |-> how.message]
    ELSE IF how.kind = "skipped"
    THEN [targetDate |-> targetDate, status |-> "skipped",
          reason |-> "No records for this date"]
    ELSE [targetDate |-> targetDate,
          status |-> IF IsSuccess(how.status) THEN "success" ELSE "failed",
          recordsSynced |-> how.n, httpStatus |-> how.status]

\* The value performAutoDailySync returns.
AutoSyncReturn(how) ==
    IF how.kind = "error" THEN [success |-> FALSE, error |-> how.message]
    ELSE IF how.kind = "skipped"
    THEN [success |-> TRUE, skipped |-> TRUE, reason |-> "No records"]
    ELSE [success |-> IsSuccess(how.status), recordsSynced |-> how.n]

\* The response the route of path sends when its work ended as how; the
\* scheduled job sends none.
Response(path, req, how) ==
    IF path = "scheduled" THEN NoReply
    ELSE IF path = "run-now"
    THEN [route |-> path, code |-> 200,
          body |-> [success |-> TRUE, result |-> AutoSyncReturn(how)]]
    ELSE IF how.kind = "error"
    THEN [route |-> path, code |-> 500,
          body |-> [success |-> FALSE, message |-> how.message]]
    ELSE IF how.kind = "skipped"
    THEN [route |-> path, code |-> 200,
          body |-> [success |-> FALSE,
                    message |-> IF path = "sync-date"
                                THEN <<"No records found for ">> \o req[2]
                                ELSE <<"No data to sync for selected filter">>]]
    ELSE IF path = "sync-date"
    THEN [route |-> path, code |-> 200,
          body |-> [success |-> IsSuccess(how.status), date |-> req[2],
                    recordsSynced |-> how.n, externalStatus |-> how.status]]
    ELSE [route |-> path, code |-> 200,
          body |-> [success |-> IsSuccess(how.status),
                    recordsSynced |-> how.n, externalStatus |-> how.status]]

\* A step in which no route responds and no postToCloud call ends.
Quiet ==
    /\ reply' = NoReply
    /\ delivered' = <<>>

\* A step that no sync handler takes.
Idle ==
    /\ Quiet
    /\ UNCHANGED <<autoSyncEnabled, lastAutoSyncAttempt, lastAutoSyncSuccess, job>>

\* A handler's work ends as how: the scheduler paths store their result, the
\* routes send their response, the handler slot is free again. dl is the
\* request log of the postToCloud call, if one was made.
End(j, how, dl) ==
    /\ lastAutoSyncSuccess' =
         IF job[j].path \in SchedulerPaths
         THEN Some(AutoSyncResult(job[j].request[2], how))
         ELSE lastAutoSyncSuccess
    /\ reply' = Response(job[j].path, job[j].request, how)
    /\ delivered' = dl
    /\ job' = [job EXCEPT ![j] = IdleJob]
    /\ UNCHANGED <<autoSyncEnabled, lastAutoSyncAttempt>>

\* Dates posted to /api/auto-sync/sync-date and filters posted to /api/sync.
D2024_11_30 == <<"2", "0", "2", "4", "-", "1", "1", "-", "3", "0">>
SyncDates == {<<>>, M2024_12, D2024_11_30}
SyncRequests == {<<"", <<>>>>, <<"all", <<>>>>}

\* The sync handlers that reach getUnifiedData when started now, each with the
\* filter it passes: performAutoDailySync (enabled) with yesterday, sync-date
\* with a well-formed date, /api/sync with its body.
SyncCalls ==
    {<<path, <<"date", getYesterdayDateString(Clock(now))>>>> :
        path \in {x \in SchedulerPaths : autoSyncEnabled}}
    \cup {<<"sync-date", <<"date", d>>>> : d \in {x \in SyncDates : DateFormatOk(x)}}
    \cup {<<"sync", q>> : q \in SyncRequests}

\* performAutoDailySync line 353
AttemptAfter(path) ==
    IF path \in SchedulerPaths THEN Some(Clock(now)) ELSE lastAutoSyncAttempt

\* performAutoDailySync fires (timer or run-now) while auto sync is disabled.
AutoSyncDisabled(path) ==
    /\ ~autoSyncEnabled
    /\ lastAutoSyncAttempt' = Some(Clock(now))
    /\ reply' = IF path = "run-now"
                THEN [route |-> path, code |-> 200,
                      body |-> [success |-> TRUE,
                                result |-> [success |-> FALSE,
                                            reason |-> "Auto sync disabled"]]]
                ELSE NoReply
    /\ delivered' = <<>>
    /\ UNCHANGED <<autoSyncEnabled, lastAutoSyncSuccess, job>>
    /\ UNCHANGED <<coordVars, dataVars>>

\* /api/auto-sync/sync-date with a missing or malformed date: 400.
SyncDateInvalid(d) ==
    /\ ~DateFormatOk(d)
    /\ reply' = [route |-> "sync-date", code |-> 400,
                 body |-> [success |-> FALSE,
                           message |-> <<"Invalid date format. Use YYYY-MM-DD">>]]
    /\ delivered' = <<>>
    /\ UNCHANGED <<autoSyncEnabled, lastAutoSyncAttempt, lastAutoSyncSuccess, job>>
    /\ UNCHANGED <<coordVars, dataVars>>

\* A sync handler starts and executeZKAction rejects its call at once: the
\* error reaches the handler's catch before anything else runs.
StartRejected(path, req) ==
    /\ <<path, req>> \in SyncCalls
    /\ \/ RejectCooldown("getUnifiedData")
       \/ RejectBusy("getUnifiedData")
    /\ lastAutoSyncAttempt' = AttemptAfter(path)
    /\ lastAutoSyncSuccess' =
         IF path \in SchedulerPaths
         THEN Some(AutoSyncResult(req[2], Threw(RejectMessage(now))))
         ELSE lastAutoSyncSuccess
    /\ reply' = Response(path, req, Threw(RejectMessage(now)))
    /\ delivered' = <<>>
    /\ UNCHANGED <<autoSyncEnabled, job>>
    /\ UNCHANGED dataVars

\* A sync handler starts and its device call is admitted on request slot p; the
\* handler takes the lowest free handler slot.
StartAdmitted(j, p, path, req) ==
    /\ <<path, req>> \in SyncCalls
    /\ job[j].pc = "idle"
    /\ \A k \in Jobs : k < j => job[k].pc # "idle"
    /\ Admit(p, "getUnifiedData")
    /\ lastAutoSyncAttempt' = AttemptAfter(path)
    /\ job' = [job EXCEPT ![j] = [IdleJob EXCEPT !.pc = "device", !.path = path,
                                                 !.started = Clock(now), !.slot = p,
                                                 !.request = req]]
    /\ Quiet
    /\ UNCHANGED <<autoSyncEnabled, lastAutoSyncSuccess>>
    /\ UNCHANGED dataVars

\* The user lists a handler's call can get from zk.getUsers().
DeviceUserLists == {<<>>, <<User("1", "Ann"), User("2", "")>>}

\* The record lists a handler's call can get from zk.getAttendances(): none,
\* one punch on the first calendar day, or punches of two employees on the
\* first day and one just after midnight on the second.
DeviceLogs ==
    {<<>>,
     <<Rec("1", At0900, 0)>>,
     <<Rec("1", At0900, 0), Rec("2", At1730, 1), Rec("1", MsPerDay + 1000, 1)>>}

\* The handler's action resolves: zk.getAttendances() and zk.getUsers() have
\* returned the device's records and users.
DeviceRead(j, logs, us) ==
    /\ job[j].pc = "device"
    /\ ActionOk(job[j].slot)
    /\ job' = [job EXCEPT ![j].fetched = TRUE, ![j].logsRaw = logs,
                          ![j].usersRaw = us]
    /\ Quiet
    /\ UNCHANGED <<autoSyncEnabled, lastAutoSyncAttempt, lastAutoSyncSuccess>>
    /\ UNCHANGED dataVars

\* executeZKAction ends for the handler: on a failure the handler's catch runs;
\* otherwise getUnifiedData computes its result, the handler builds the
\* payload and, unless it is empty, postToCloud sends the primary request.
DeviceDone(j) ==
    /\ job[j].pc = "device"
    /\ Disconnected(job[j].slot)
    /\ IF failed[job[j].slot]
       THEN End(j, Threw(errMsg[job[j].slot]), <<>>)
       ELSE LET res == getUnifiedData(job[j].logsRaw, job[j].request[1],
                                      job[j].request[2], Clock(now))
                payload == BuildPayload(job[j].path, res.summary,
                                        UserMap(job[j].usersRaw))
            IN IF Len(payload) = 0
               THEN End(j, Skipped, <<>>)
               ELSE /\ job' = [job EXCEPT ![j].pc = "primary",
                                          ![j].payload = payload,
                                          ![j].attempts =
                                              <<tryRequest(CLOUD_HOST, FALSE)>>]
                    /\ Quiet
                    /\ UNCHANGED <<autoSyncEnabled, lastAutoSyncAttempt,
                                   lastAutoSyncSuccess>>
    /\ UNCHANGED dataVars

\* Mutant of Delivery: a request error of the cloud arms the device cool down.
DeliveryArmsCooldown(o) ==
    /\ cooldownUntil' = IF o.kind = "error" THEN now + CooldownMs ELSE cooldownUntil
    /\ UNCHANGED <<now, isDeviceBusy, lastBusyReset, pc, forced, failed, resp,
                   lastFail, errMsg, settled, closed>>

\* What a request of postToCloud that ends as o does to the device
\* coordinator: postToCloud and the handlers' code after it assign none of its
\* variables.
Delivery(o) == UNCHANGED coordVars

\* The primary request ends: with a response postToCloud returns it; on a
\* request error it sends the fallback request.
PrimarySettles(j, o) ==
    /\ job[j].pc = "primary"
    /\ LET a1 == [job[j].attempts[1] EXCEPT !.outcome = Some(o)]
       IN IF NeedsFallback(o)
          THEN /\ job' = [job EXCEPT ![j].pc = "fallback",
                                     ![j].attempts = <<a1, tryRequest(CLOUD_IP, TRUE)>>]
               /\ Quiet
               /\ UNCHANGED <<autoSyncEnabled, lastAutoSyncAttempt,
                              lastAutoSyncSuccess>>
          ELSE End(j, Posted(o.status, Len(job[j].payload)), <<a1>>)
    /\ Delivery(o)
    /\ UNCHANGED dataVars

\* The fallback request ends: with a response postToCloud returns it; on a
\* request error postToCloud throws.
FallbackSettles(j, o) ==
    /\ job[j].pc = "fallback"
    /\ LET dl == <<job[j].attempts[1], [job[j].attempts[2] EXCEPT !.outcome = Some(o)]>>
       IN IF o.kind = "error"
          THEN End(j, Threw(<<o.message>>), dl)
          ELSE End(j, Posted(o.status, Len(job[j].payload)), dl)
    /\ Delivery(o)
    /\ UNCHANGED dataVars

\* What /api/auto-sync/toggle can carry as enabled: a boolean, or anything else.
ToggleBodies == {"true", "false", "other"}

\* /api/auto-sync/toggle
Toggle(b) ==
    /\ autoSyncEnabled' = IF b = "true" THEN TRUE
                          ELSE IF b = "false" THEN FALSE
                          ELSE ~autoSyncEnabled
    /\ reply' = [route |-> "toggle", code |-> 200,
                 body |-> [success |-> TRUE, enabled |-> autoSyncEnabled']]
    /\ delivered' = <<>>
    /\ UNCHANGED <<lastAutoSyncAttempt, lastAutoSyncSuccess, job>>
    /\ UNCHANGED <<coordVars, dataVars>>

\* /api/auto-sync/status
Status ==
    /\ reply' = [route |-> "status", code |-> 200,
                 body |-> [success |-> TRUE, enabled |-> autoSyncEnabled,
                           lastAttempt |-> lastAutoSyncAttempt,
                           lastResult |-> lastAutoSyncSuccess]]
    /\ delivered' = <<>>
    /\ UNCHANGED <<autoSyncEnabled, lastAutoSyncAttempt, lastAutoSyncSuccess, job>>
    /\ UNCHANGED <<coordVars, dataVars>>

\* Time passes while syncs run.
SyncTick(d) ==
    /\ now + d <= MaxSyncTime
    /\ Tick(d)
    /\ UNCHANGED dataVars
    /\ Idle

SyncNext ==
    /\ \/ \E path \in SchedulerPaths : AutoSyncDisabled(path)
       \/ \E d \in SyncDates : SyncDateInvalid(d)
       \/ \E c \in SyncCalls : StartRejected(c[1], c[2])
       \/ \E j \in Jobs, p \in Procs, c \in SyncCalls : StartAdmitted(j, p, c[1], c[2])
       \/ \E p \in Procs : CreateSocketOk(p) /\ UNCHANGED dataVars /\ Idle
       \/ \E p \in Procs : CreateSocketFail(p) /\ UNCHANGED dataVars /\ Idle
       \/ \E p \in Procs : ActionFail(p) /\ UNCHANGED dataVars /\ Idle
       \/ \E j \in Jobs, logs \in DeviceLogs, us \in DeviceUserLists : DeviceRead(j, logs, us)
       \/ \E j \in Jobs : DeviceDone(j)
       \/ \E j \in Jobs, o \in CloudOutcomes : PrimarySettles(j, o)
       \/ \E j \in Jobs, o \in CloudOutcomes : FallbackSettles(j, o)
       \/ \E b \in ToggleBodies : Toggle(b)
       \/ Status
       \/ \E d \in TickSteps : SyncTick(d)
    /\ UNCHANGED formatVars

SpecSync == Init /\ [][SyncNext]_vars

-----------------------------------------------------------------------------
\* Cloud sync: properties.

\* The two requests postToCloud can send.
PrimaryRequest == [hostname |-> CLOUD_HOST, host |-> CLOUD_HOST, rejectUnauthorized |-> TRUE]
FallbackRequest == [hostname |-> CLOUD_IP, host |-> CLOUD_HOST, rejectUnauthorized |-> FALSE]

\* The options of a logged request, and whether it is still in flight, ended
\* with a request error, or ended with a response.
OptionsOf(a) == [hostname |-> a.hostname, host |-> a.host,
                 rejectUnauthorized |-> a.rejectUnauthorized]
InFlightReq(a) == a.outcome = Null
FailedReq(a) == a.outcome # Null /\ a.outcome[1].kind = "error"
AnsweredReq(a) == a.outcome # Null /\ a.outcome[1].kind = "response"

\* The handler of path reports overall success in this step.
SuccessReported(path) ==
    IF path \in SchedulerPaths
    THEN lastAutoSyncSuccess' # Null /\ lastAutoSyncSuccess'[1].status = "success"
    ELSE reply'.route = path /\ reply'.body.success

\* C11: postToCloud sends the primary request first (to the hostname, with
\* certificate validation); the fallback request exists only after the primary
\* request ended with a request error, and then exactly once, dialling the
\* pinned IP with Host set to the primary hostname and certificate validation
\* off for that request only; a primary request that ended with a response of
\* any status is the call's only request; at most one request is in flight;
\* and a 2xx answer to the fallback request is reported as overall success.
C11_FallbackOnce ==
    [][\A j \in Jobs :
         LET a == job'[j].attempts
             d == delivered'
         IN /\ job'[j].pc = "primary"
                 => /\ Len(a) = 1
                    /\ OptionsOf(a[1]) = PrimaryRequest
                    /\ InFlightReq(a[1])
            /\ job'[j].pc = "fallback"
                 => /\ job[j].pc \in {"primary", "fallback"}
                    /\ Len(a) = 2
                    /\ OptionsOf(a[1]) = PrimaryRequest /\ FailedReq(a[1])
                    /\ OptionsOf(a[2]) = FallbackRequest /\ InFlightReq(a[2])
            /\ job'[j].pc \notin {"primary", "fallback"} => a = <<>>
            /\ (job[j].pc = "primary" /\ job'[j].pc = "idle")
                 => /\ Len(d) = 1
                    /\ OptionsOf(d[1]) = PrimaryRequest /\ AnsweredReq(d[1])
            /\ (job[j].pc = "fallback" /\ job'[j].pc = "idle")
                 => /\ Len(d) = 2
                    /\ OptionsOf(d[1]) = PrimaryRequest /\ FailedReq(d[1])
                    /\ OptionsOf(d[2]) = FallbackRequest /\ ~InFlightReq(d[2])
                    /\ (AnsweredReq(d[2]) /\ d[2].outcome[1].status \in 200..299)
                         => SuccessReported(job[j].path)
            /\ (job[j].pc = "primary" /\ job'[j].pc # "primary")
                 => job'[j].pc \in {"fallback", "idle"}
            /\ (job[j].pc = "fallback" /\ job'[j].pc # "fallback")
                 => job'[j].pc = "idle"]_vars

\* C11 witness: /api/sync's primary request failed, its one fallback request
\* was answered 200 and the route answered success.
C11_Witness ==
    /\ Len(delivered) = 2
    /\ FailedReq(delivered[1])
    /\ delivered[2].outcome = Some([kind |-> "response", status |-> 200, message |-> ""])
    /\ reply.route = "sync"
    /\ reply.body.success

\* C12: on every sync path, when the payload built from the filtered summary
\* is empty the handler ends without any cloud request and the persisted
\* scheduler result records the outcome skipped.
C12_EmptyPayloadSkipped ==
    [][\A j \in Jobs :
         (job[j].pc = "device" /\ job'[j].pc = "idle" /\ ~failed[job[j].slot])
           => /\ delivered' = <<>>
              /\ lastAutoSyncSuccess' # Null
              /\ lastAutoSyncSuccess'[1].status = "skipped"]_vars

\* A step in which performAutoDailySync fires while auto sync is disabled.
DisabledFire == \E path \in SchedulerPaths : AutoSyncDisabled(path)

\* C13: a fire of the daily sync while auto sync is disabled leaves a skip with
\* its reason, for that fire's target date, in the persisted result, and makes
\* no device call and no cloud request.
C13_DisabledSkipRecorded ==
    [][DisabledFire
        => /\ lastAutoSyncSuccess' # Null
           /\ lastAutoSyncSuccess'[1].status = "skipped"
           /\ "reason" \in DOMAIN lastAutoSyncSuccess'[1]
           /\ lastAutoSyncSuccess'[1].targetDate = getYesterdayDateString(Clock(now))
           /\ UNCHANGED <<coordVars, job>>
           /\ delivered' = <<>>]_vars

\* The last request of a postToCloud call that ended was answered with st.
FinalStatus(d, st) == d # <<>> /\ AnsweredReq(d[Len(d)]) /\ d[Len(d)].outcome[1].status = st

\* C14: when a fire of the daily sync that started enabled ends (rejected by
\* the device coordinator, device failure, empty payload, 2xx, non-2xx, request
\* errors on both hosts), the persisted result holds that run's target date
\* and an outcome of success, failed, error or skipped, success exactly for an
\* answered 2xx and failed exactly for an answered non-2xx, and the persisted
\* attempt timestamp is the time that run started.
C14_RunPersisted ==
    [][/\ \A j \in Jobs :
            (job[j].path \in SchedulerPaths /\ job[j].pc # "idle" /\ job'[j].pc = "idle")
              => /\ lastAutoSyncSuccess' # Null
                 /\ lastAutoSyncSuccess'[1].targetDate = job[j].request[2]
                 /\ lastAutoSyncSuccess'[1].status \in {"success", "failed", "error", "skipped"}
                 /\ lastAutoSyncSuccess'[1].status = "success"
                      <=> \E st \in 200..299 : FinalStatus(delivered', st)
                 /\ lastAutoSyncSuccess'[1].status = "failed"
                      <=> \E st \in CloudStatuses \ (200..299) : FinalStatus(delivered', st)
                 /\ lastAutoSyncAttempt' = Some(job[j].started)
       /\ (\E path \in SchedulerPaths :
              StartRejected(path, <<"date", getYesterdayDateString(Clock(now))>>))
              => /\ lastAutoSyncSuccess' # Null
                 /\ lastAutoSyncSuccess'[1].targetDate = getYesterdayDateString(Clock(now))
                 /\ lastAutoSyncSuccess'[1].status = "error"
                 /\ lastAutoSyncAttempt' = Some(Clock(now))]_vars

\* C15: every response of a sync route has success = true, or success = false
\* together with a non-empty message.
C15_Envelope ==
    reply.body.success = FALSE
      => /\ "message" \in DOMAIN reply.body
         /\ reply.body.message # <<>>

\* The name the device's user list gives employee uid, "Unknown" when it has
\* none.
DeviceName(usersRaw, uid) ==
    IF \E i \in 1..Len(usersRaw) : usersRaw[i].userId = uid /\ usersRaw[i].name # ""
    THEN usersRaw[CHOOSE i \in 1..Len(usersRaw) :
                    usersRaw[i].userId = uid /\ usersRaw[i].name # ""].name
    ELSE "Unknown"

\* C16: the payload a handler hands to postToCloud has exactly one record per
\* (employee, date) entry of the filtered summary, each with the employee id,
\* the name (the device's, or "Unknown"), the date, first check-in, last
\* check-out, total worked time and the logs, on every sync path.
C16_PayloadRecords ==
    [][\A j \in Jobs :
         (job[j].pc = "device" /\ job'[j].pc = "primary")
           => LET res == getUnifiedData(job[j].logsRaw, job[j].request[1],
                                        job[j].request[2], Clock(now))
                  P == job'[j].payload
              IN /\ Len(P) = Cardinality(SummaryPairs(res.summary))
                 /\ \A k \in SummaryPairs(res.summary) :
                      Cardinality({i \in 1..Len(P) : P[i].employee_code_id = k[1]
                                                       /\ P[i].date = k[2]}) = 1
                 /\ \A i \in 1..Len(P) :
                      /\ DOMAIN P[i] = {"employee_code_id", "name", "date",
                                        "first_Check_In", "last_check_out",
                                        "total_time_worked", "logs"}
                      /\ P[i].name = DeviceName(job[j].usersRaw, P[i].employee_code_id)
                      /\ LET s == res.summary[P[i].employee_code_id][P[i].date]
                         IN /\ P[i].first_Check_In = s.firstIn
                            /\ P[i].last_check_out = s.lastOut
                            /\ P[i].total_time_worked = FormatTotal(s.totalMs)
                            /\ P[i].logs = s.logs]_vars

\* A step in which a request of postToCloud ends.
DeliveryStep ==
    \E j \in Jobs, o \in CloudOutcomes : PrimarySettles(j, o) \/ FallbackSettles(j, o)

\* C22: whatever the outcome of a postToCloud request (answered 2xx, answered
\* non-2xx, request error on the primary, request error on the fallback too),
\* the step leaves isDeviceBusy, lastBusyReset and cooldownUntil as they were,
\* so the branch a device call made right after it takes is the one it would
\* have taken before it.
C22_DeliveryLeavesCoordinator ==
    [][DeliveryStep
        => /\ UNCHANGED <<isDeviceBusy, lastBusyReset, cooldownUntil>>
           /\ Outcome(now)' = Outcome(now)]_vars

\* C22 witness: a delivery has just failed on both the primary and the
\* fallback request, and a device call made now would be admitted.
C22_Witness ==
    /\ Len(delivered) = 2
    /\ FailedReq(delivered[1])
    /\ FailedReq(delivered[2])
    /\ Outcome(now) = "admitted"

-----------------------------------------------------------------------------
\* Device-access coordinator: properties.

\* A step in which some caller calls executeZKAction.
CallStep ==
    \/ \E c \in Callers : RejectCooldown(c)
    \/ \E c \in Callers : RejectBusy(c)
    \/ \E p \in Procs, c \in Callers : Admit(p, c)

\* The request slots whose connection is open.
InFlight == {p \in Procs : pc[p] # "idle"}

\* C1: in every reachable state at most one device action is in flight (a
\* request issued while another action's connection is open never opens a
\* second connection).
C1_AtMostOneInFlight == Cardinality(InFlight) <= 1

C3_StuckOverride ==
    [][(CallStep /\ isDeviceBusy /\ ~(now < cooldownUntil))
        => IF now - lastBusyReset > StuckMs
           THEN /\ resp'.kind = "admitted"
                /\ isDeviceBusy'
                /\ lastBusyReset' = now
                /\ \E p \in Procs :
                     pc[p] = "idle" /\ pc'[p] = "connecting" /\ forced'[p]
           ELSE resp'.kind = "busy"]_vars

\* C3 witness: an action admitted through the emergency reset has succeeded
\* (its action step resolved and it is closing its connection).
C3_Witness == \E p \in Procs : forced[p] /\ pc[p] = "closing" /\ ~failed[p]

\* C18: a call rejected because the cool down is active leaves isDeviceBusy,
\* lastBusyReset and cooldownUntil as they were, whichever entry point made it.
C18_CooldownRejectFrame ==
    [][(CallStep /\ now < cooldownUntil)
        => /\ resp'.kind = "cooldown"
           /\ UNCHANGED <<isDeviceBusy, lastBusyReset, cooldownUntil>>]_vars

\* C19: a call rejected as DeviceBusy (flag set, no cool down, not stuck) opens
\* no connection and leaves cooldownUntil, isDeviceBusy and lastBusyReset as
\* they were, so the action in flight keeps holding the device.
C19_BusyRejectFrame ==
    [][(CallStep /\ ~(now < cooldownUntil) /\ isDeviceBusy
          /\ ~(now - lastBusyReset > StuckMs))
        => /\ resp'.kind = "busy"
           /\ pc' = pc
           /\ UNCHANGED <<isDeviceBusy, lastBusyReset, cooldownUntil>>]_vars

\* C20: when the connect step or the action step of an admitted action fails,
\* cooldownUntil becomes the failure time plus 15s and the call ends by throwing
\* one message, a non-empty string, to its caller; the steps of an action that
\* does not fail (admission, connect, action, close) leave cooldownUntil as it
\* was and the call returns.
C20_FailureArmsCooldown ==
    [][\A p \in Procs :
         /\ (pc[p] \in {"connecting", "acting"} /\ pc'[p] = "closing" /\ failed'[p])
              => /\ cooldownUntil' = now + CooldownMs
                 /\ Len(errMsg'[p]) = 1
                 /\ errMsg'[p][1] # ""
         /\ (pc[p] = "closing" /\ pc'[p] = "idle" /\ failed[p])
              => /\ settled' = [kind |-> "threw", message |-> errMsg[p]]
                 /\ errMsg[p] # Null
                 /\ cooldownUntil' = cooldownUntil
         /\ (pc[p] # pc'[p] /\ ~failed[p] /\ ~failed'[p])
              => /\ cooldownUntil' = cooldownUntil
                 /\ pc'[p] = "idle" => settled' = [kind |-> "returned", message |-> Null]]_vars

\* C20 witness: a failed action (rejected with undefined) has ended by throwing
\* the default message, and the cool down it armed is running.
C20_Witness ==
    /\ settled = [kind |-> "threw", message |-> Some("Unknown Communication Error")]
    /\ cooldownUntil = lastFail + CooldownMs
    /\ now < cooldownUntil
    /\ lastFail > 0

\* C21: on every completion path of an admitted action (success, connect
\* failure, action failure, each with the close itself resolving or rejecting)
\* the call ends only through its close step, a close error does not reach the
\* caller (the call returns, or throws the action's own error), and
\* isDeviceBusy is false once the call has ended.
C21_AlwaysClosed ==
    [][\A p \in Procs :
         /\ (pc[p] \in {"connecting", "acting"} /\ pc'[p] # pc[p])
              => pc'[p] \in {"acting", "closing"}
         /\ (pc[p] # "idle" /\ pc'[p] = "idle")
              => /\ pc[p] = "closing"
                 /\ closed' \in {"resolved", "rejected"}
                 /\ settled' = IF failed[p]
                               THEN [kind |-> "threw", message |-> errMsg[p]]
                               ELSE [kind |-> "returned", message |-> Null]
                 /\ ~isDeviceBusy']_vars

\* C21 witness: a call whose action succeeded and whose close failed has
\* returned to its caller, and the flag is clear.
C21_Witness ==
    /\ closed = "rejected"
    /\ settled.kind = "returned"
    /\ ~isDeviceBusy
    /\ \A p \in Procs : pc[p] = "idle"

\* C24: in every reachable state, while an admitted action has not completed
\* its close step, isDeviceBusy is true.
C24_BusyWhileInFlight == InFlight # {} => isDeviceBusy


====
